---- MODULE Spec2Model ----
(***************************************************************************)
(* Model of hei_cvd_analysis.py: the cleaning of the HEI / CVD-risk table  *)
(* (load_and_clean_data), the group summaries, the Pearson correlation and *)
(* the fixed sequence of stages run by main().                             *)
(*                                                                         *)
(* Text is a sequence of one-character strings, so that upper-casing,      *)
(* stripping and number parsing are computed character by character.       *)
(* Numbers are fixed-point with one decimal: the value 8.2 is the integer  *)
(* 82, the age 74.5 is 745.                                                *)
(***************************************************************************)
EXTENDS Integers, Sequences, FiniteSets, TLC

VARIABLES
    fileExists,   \* whether DATA_PATH can be read
    raw,          \* the CSV's data lines: a sequence of rows of raw text cells
    pc,           \* the stage main() runs next, or "done" / "failed"
    err,          \* the exception that ended the run, "none" while there is none
    trace,        \* the stages that ran to completion, in order
    df,           \* the data frame main() holds
    sexDtype,     \* dtype of df["sex"]: "none", "object", "category"
    group_sex,    \* descriptive_statistics: by-sex summary rows
    group_age,    \* descriptive_statistics: by-age_group summary rows
    r,            \* correlation_analysis: Pearson r of hei_score and cvd_risk_score
    rNeg,         \* Pearson r recomputed with one variable negated
    figures,      \* figures shown by plt.show(), in order
    model,        \* regression_analysis: the design of the fitted model
    files,        \* names of the files present in OUTPUT_DIR
    processed     \* content of hei_cvd_clean_processed.csv

vars == <<fileExists, raw, pc, err, trace, df, sexDtype, group_sex, group_age,
          r, rNeg, figures, model, files, processed>>

\* ------------------------------------------------------------------ bounds

\* Largest number of data lines in the input CSV.
MaxRows == 3
\* Largest number of rows of a data set handed to the correlation directly.
MaxN == 3

\* ------------------------------------------------------------- text helpers

Lower == <<"a","b","c","d","e","f","g","h","i","j","k","l","m",
           "n","o","p","q","r","s","t","u","v","w","x","y","z">>
UpperCase == <<"A","B","C","D","E","F","G","H","I","J","K","L","M",
               "N","O","P","Q","R","S","T","U","V","W","X","Y","Z">>
DigitChars == <<"0","1","2","3","4","5","6","7","8","9">>
Whitespace == {" ", "\t"}

\* str.upper() on one character.
UpperChar(c) ==
    IF \E i \in DOMAIN Lower : Lower[i] = c
    THEN UpperCase[CHOOSE i \in DOMAIN Lower : Lower[i] = c]
    ELSE c

\* Series.str.upper()
StrUpper(s) == [i \in DOMAIN s |-> UpperChar(s[i])]

RECURSIVE LStrip(_)
LStrip(s) ==
    IF s = <<>> THEN s
    ELSE IF Head(s) \in Whitespace THEN LStrip(Tail(s)) ELSE s

RECURSIVE RStrip(_)
RStrip(s) ==
    IF s = <<>> THEN s
    ELSE IF s[Len(s)] \in Whitespace THEN RStrip(SubSeq(s, 1, Len(s) - 1)) ELSE s

\* Variant: str.lstrip() in place of str.strip().
StrStripLeftOnly(s) == LStrip(s)

\* Series.str.strip()
StrStrip(s) == RStrip(LStrip(s))

IsDigit(c) == \E i \in DOMAIN DigitChars : DigitChars[i] = c
DigitVal(c) == (CHOOSE i \in DOMAIN DigitChars : DigitChars[i] = c) - 1

\* Value of a sequence of digits.
RECURSIVE DigitsVal(_)
DigitsVal(s) ==
    IF s = <<>> THEN 0
    ELSE 10 * DigitsVal(SubSeq(s, 1, Len(s) - 1)) + DigitVal(s[Len(s)])

\* Position of the decimal point, 0 when there is none.
DotPos(s) ==
    IF \E i \in DOMAIN s : s[i] = "." THEN CHOOSE i \in DOMAIN s : s[i] = "." ELSE 0

\* A cell the CSV parser / pd.to_numeric reads as a number: digits with at
\* most one decimal point and (fixed-point) at most one decimal.
IsNumeric(s) ==
    /\ s # <<>>
    /\ \A i \in DOMAIN s : IsDigit(s[i]) \/ (s[i] = "." /\ i = DotPos(s))
    /\ \E i \in DOMAIN s : IsDigit(s[i])
    /\ DotPos(s) # 0 => Len(s) - DotPos(s) <= 1

\* The number a numeric cell stands for, in tenths.
ParseNum(s) ==
    IF DotPos(s) = 0 THEN 10 * DigitsVal(s)
    ELSE 10 * DigitsVal(SubSeq(s, 1, DotPos(s) - 1))
         + DigitsVal(SubSeq(s, DotPos(s) + 1, Len(s)))

\* str() of a non-negative integer.
RECURSIVE IntChars(_)
IntChars(n) ==
    IF n < 10 THEN <<DigitChars[n + 1]>>
    ELSE Append(IntChars(n \div 10), DigitChars[(n % 10) + 1])

\* str() of a float64 (value in tenths): always with a decimal.
FloatChars(v) == IntChars(v \div 10) \o <<".", DigitChars[(v % 10) + 1]>>

\* ------------------------------------------------------------------- cells

NaN == [k |-> "nan", v |-> 0, s |-> <<>>]
Num(x) == [k |-> "num", v |-> x, s |-> <<>>]
Str(t) == [k |-> "str", v |-> 0, s |-> t]

IsNull(c) == c.k = "nan"

\* Strings pd.read_csv reads as missing (a part of its default na_values).
NaTokens == { <<>>, <<"N","A">>, <<"n","a","n">>, <<"N","/","A">> }

Cols == {"age", "sex", "hei_score", "cvd_risk_score"}

\* dtype pd.read_csv infers for a column.
ColDtype(lines, col) ==
    LET present == { i \in DOMAIN lines : lines[i][col] \notin NaTokens }
    IN  IF \E i \in present : ~IsNumeric(lines[i][col]) THEN "object"
        ELSE IF present = DOMAIN lines
                /\ \A i \in present : DotPos(lines[i][col]) = 0
             THEN "int64"
             ELSE "float64"

\* pd.read_csv: one frame row per data line; "idx" is the row's index label.
ReadCsv(lines) ==
    [i \in DOMAIN lines |->
        [c \in Cols |->
            IF lines[i][c] \in NaTokens THEN NaN
            ELSE IF ColDtype(lines, c) = "object" THEN Str(lines[i][c])
            ELSE Num(ParseNum(lines[i][c]))]
        @@ [idx |-> i]]

\* --------------------------------------------------- load_and_clean_data

AgeMin == 30
AgeMax == 74
age_bins == <<30, 45, 60, 75>>
age_labels == <<"30-44", "45-59", "60-74">>
\* The missing category of a categorical column.
NoCategory == "NaN"

key_cols == {"age", "sex", "hei_score", "cvd_risk_score"}
numeric_cols == {"age", "hei_score", "cvd_risk_score"}

MALE == <<"M","A","L","E">>
FEMALE == <<"F","E","M","A","L","E">>

\* df["age"] >= 30 on an object column holding text raises TypeError
\* ('>=' not supported between instances of 'str' and 'int').
AgeCompareRaises(frame) == \E i \in DOMAIN frame : frame[i].age.k = "str"

\* Variant: the upper limit taken as "below 75".
AgeMaskBelow75(row) ==
    /\ row.age.k = "num"
    /\ row.age.v >= 10 * AgeMin
    /\ row.age.v < 10 * (AgeMax + 1)

\* (df["age"] >= 30) & (df["age"] <= 74): a comparison with NaN is False.
AgeMask(row) ==
    /\ row.age.k = "num"
    /\ row.age.v >= 10 * AgeMin
    /\ row.age.v <= 10 * AgeMax

FilterAge(frame) ==
    LET Keep(row) == AgeMask(row) IN SelectSeq(frame, Keep)

\* Variant: dropna(how="all"), dropping a row only when every key is missing.
DropNaAll(frame, subset) ==
    LET Keep(row) == \E c \in subset : ~IsNull(row[c]) IN SelectSeq(frame, Keep)

\* Variant: the result of dropna is not assigned, so no row is dropped.
DropNaNothing(frame, subset) == frame

\* df.dropna(subset=...)
DropNa(frame, subset) ==
    LET Keep(row) == \A c \in subset : ~IsNull(row[c]) IN SelectSeq(frame, Keep)

\* Series.astype(str) on one cell of a column of the given dtype.
AsStr(cell, dtype) ==
    IF cell.k = "str" THEN cell.s
    ELSE IF cell.k = "nan" THEN <<"n","a","n">>
    ELSE IF dtype = "int64" THEN IntChars(cell.v \div 10)
    ELSE FloatChars(cell.v)

\* Variant: only "MALE" is replaced.
SexReplaceMaleOnly(s) == IF s = MALE THEN <<"M">> ELSE s

\* Series.replace({"MALE": "M", "FEMALE": "F"})
SexReplace(s) ==
    IF s = MALE THEN <<"M">> ELSE IF s = FEMALE THEN <<"F">> ELSE s

\* df["sex"].astype(str).str.upper().str.strip(), then the replace.
NormalizeSex(cell, dtype) == Str(SexReplace(StrStrip(StrUpper(AsStr(cell, dtype)))))

StandardizeSex(frame, dtype) ==
    [i \in DOMAIN frame |-> [frame[i] EXCEPT !.sex = NormalizeSex(@, dtype)]]

\* pd.to_numeric(..., errors="coerce") on one cell.
ToNumeric(cell) ==
    IF cell.k = "str"
    THEN IF IsNumeric(cell.s) THEN Num(ParseNum(cell.s)) ELSE NaN
    ELSE cell

EnsureNumeric(frame) ==
    [i \in DOMAIN frame |->
        [frame[i] EXCEPT !.hei_score = ToNumeric(@),
                         !.cvd_risk_score = ToNumeric(@),
                         !.age = ToNumeric(@)]]

\* Variant: pd.cut with its default right=True, bins (30,45], (45,60], (60,75].
CutRightClosed(cell) ==
    IF cell.k = "num"
       /\ \E i \in DOMAIN age_labels :
              10 * age_bins[i] < cell.v /\ cell.v <= 10 * age_bins[i + 1]
    THEN age_labels[CHOOSE i \in DOMAIN age_labels :
                        10 * age_bins[i] < cell.v /\ cell.v <= 10 * age_bins[i + 1]]
    ELSE NoCategory

\* pd.cut(age, bins=age_bins, labels=age_labels, right=False) on one cell:
\* bin i is [age_bins[i], age_bins[i+1]); a value in no bin has no category.
Cut(cell) ==
    IF cell.k = "num"
       /\ \E i \in DOMAIN age_labels :
              10 * age_bins[i] <= cell.v /\ cell.v < 10 * age_bins[i + 1]
    THEN age_labels[CHOOSE i \in DOMAIN age_labels :
                        10 * age_bins[i] <= cell.v /\ cell.v < 10 * age_bins[i + 1]]
    ELSE NoCategory

AddAgeGroup(frame) ==
    [i \in DOMAIN frame |-> frame[i] @@ [age_group |-> Cut(frame[i].age)]]

\* The frame load_and_clean_data returns when nothing raises.
Clean(lines) ==
    AddAgeGroup(
      DropNa(
        EnsureNumeric(
          StandardizeSex(
            DropNa(FilterAge(ReadCsv(lines)), key_cols),
            ColDtype(lines, "sex"))),
        numeric_cols))

Stages == <<"load", "describe", "correlate", "scatter", "stratified", "regress", "save">>

\* Variant: main() does not call plot_scatter_with_regline.
NextStageSkipsScatter(st) ==
    LET i == CHOOSE j \in DOMAIN Stages : Stages[j] = st
    IN  IF i = Len(Stages) THEN "done"
        ELSE IF Stages[i + 1] = "scatter" THEN Stages[i + 2] ELSE Stages[i + 1]

\* The stage after a stage of main(), "done" after the last.
NextStage(st) ==
    LET i == CHOOSE j \in DOMAIN Stages : Stages[j] = st
    IN  IF i = Len(Stages) THEN "done" ELSE Stages[i + 1]

\* An exception leaves main(): nothing later runs.
Raise(e) ==
    /\ pc' = "failed"
    /\ err' = e

\* The stage returns: main() goes on to the next one.
Return(st) ==
    /\ pc' = NextStage(st)
    /\ trace' = Append(trace, st)
    /\ err' = err

LoadAndClean ==
    /\ pc = "load"
    /\ IF ~fileExists
       THEN /\ Raise("FileNotFoundError")
            /\ UNCHANGED <<trace, df, sexDtype>>
       ELSE IF AgeCompareRaises(ReadCsv(raw))
       THEN /\ Raise("TypeError")
            /\ UNCHANGED <<trace, df, sexDtype>>
       ELSE /\ df' = Clean(raw)
            /\ sexDtype' = "object"
            /\ Return("load")
    /\ UNCHANGED <<fileExists, raw, group_sex, group_age, r, rNeg, figures,
                   model, files, processed>>

\* ------------------------------------------------ descriptive_statistics

RECURSIVE SumOver(_, _)
\* Sum of the values of a column over the rows whose value is not missing.
SumOver(frame, col) ==
    IF frame = <<>> THEN 0
    ELSE (IF IsNull(Head(frame)[col]) THEN 0 ELSE Head(frame)[col].v)
         + SumOver(Tail(frame), col)

RECURSIVE SumSqOver(_, _)
SumSqOver(frame, col) ==
    IF frame = <<>> THEN 0
    ELSE (IF IsNull(Head(frame)[col]) THEN 0
          ELSE Head(frame)[col].v * Head(frame)[col].v)
         + SumSqOver(Tail(frame), col)

\* "count" of a column: the number of rows whose value is not missing.
CountOver(frame, col) ==
    Cardinality({ i \in DOMAIN frame : ~IsNull(frame[i][col]) })

\* .agg(["mean", "std", "count"]) of one column of one group; the mean is
\* sum / count and the std follows from sum, sumsq and count.
Agg(group, col) ==
    [count |-> CountOver(group, col),
     sum   |-> SumOver(group, col),
     sumsq |-> SumSqOver(group, col)]

\* The rows of one group.
GroupRows(frame, col, key) ==
    LET In(row) == row[col] = key IN SelectSeq(frame, In)

\* df.groupby("sex")[["hei_score", "cvd_risk_score"]].agg(...): one summary row
\* per sex value present; rows whose key is missing are in no group.
GroupBySex(frame) ==
    { [key            |-> k.s,
       hei_score      |-> Agg(GroupRows(frame, "sex", k), "hei_score"),
       cvd_risk_score |-> Agg(GroupRows(frame, "sex", k), "cvd_risk_score")] :
      k \in { frame[i].sex : i \in { j \in DOMAIN frame : ~IsNull(frame[j].sex) } } }

\* df.groupby("age_group")...: age_group is categorical, so there is one
\* summary row per category, empty categories included.
GroupByAge(frame) ==
    { [key            |-> age_labels[n],
       hei_score      |-> Agg(GroupRows(frame, "age_group", age_labels[n]), "hei_score"),
       cvd_risk_score |-> Agg(GroupRows(frame, "age_group", age_labels[n]),
                              "cvd_risk_score")] :
      n \in DOMAIN age_labels }

SexSummaryFile == "group_summary_by_sex.csv"
AgeSummaryFile == "group_summary_by_age.csv"
ProcessedFile == "hei_cvd_clean_processed.csv"

\* Variant: the summaries are printed but not saved.
DescriptiveStatisticsNoSave ==
    /\ pc = "describe"
    /\ group_sex' = GroupBySex(df)
    /\ group_age' = GroupByAge(df)
    /\ Return("describe")
    /\ UNCHANGED <<fileExists, raw, df, sexDtype, r, rNeg, figures, model, files,
                   processed>>

DescriptiveStatistics ==
    /\ pc = "describe"
    /\ group_sex' = GroupBySex(df)
    /\ group_age' = GroupByAge(df)
    /\ files' = files \cup {SexSummaryFile, AgeSummaryFile}
    /\ Return("describe")
    /\ UNCHANGED <<fileExists, raw, df, sexDtype, r, rNeg, figures, model, processed>>

\* --------------------------------------------------- correlation_analysis

\* A column as a sequence of numbers.
Column(frame, col) == [i \in DOMAIN frame |-> frame[i][col].v]

RECURSIVE SeqSum(_)
SeqSum(xs) == IF xs = <<>> THEN 0 ELSE Head(xs) + SeqSum(Tail(xs))

Products(xs, ys) == [i \in DOMAIN xs |-> xs[i] * ys[i]]

NoR == [state |-> "none", num |-> 0, den |-> 0]
NanR == [state |-> "nan", num |-> 0, den |-> 0]

PearsonRaises(xs, ys) == Len(xs) < 2

IsConstant(xs) == \A i \in DOMAIN xs : xs[i] = xs[1]

\* n^2 times the covariance of xs and ys.
Cov(xs, ys) == Len(xs) * SeqSum(Products(xs, ys)) - SeqSum(xs) * SeqSum(ys)

\* Variant: the covariance divided by the variance of x (the regression
\* slope) in place of the correlation.
PearsonRSlope(xs, ys) ==
    IF IsConstant(xs) \/ IsConstant(ys) THEN NanR
    ELSE [state |-> "ok", num |-> Cov(xs, ys), den |-> Cov(xs, xs) * Cov(xs, xs)]

\* stats.pearsonr(x, y) for at least two points: r is NaN when an input is
\* constant, else r = num / sqrt(den) with num the (scaled) covariance and
\* den the product of the (scaled) variances.
PearsonR(xs, ys) ==
    IF IsConstant(xs) \/ IsConstant(ys) THEN NanR
    ELSE [state |-> "ok", num |-> Cov(xs, ys), den |-> Cov(xs, xs) * Cov(ys, ys)]

CorrelationAnalysis ==
    /\ pc = "correlate"
    /\ IF PearsonRaises(Column(df, "hei_score"), Column(df, "cvd_risk_score"))
       THEN /\ Raise("ValueError")
            /\ UNCHANGED <<trace, r>>
       ELSE /\ r' = PearsonR(Column(df, "hei_score"), Column(df, "cvd_risk_score"))
            /\ Return("correlate")
    /\ UNCHANGED <<fileExists, raw, df, sexDtype, group_sex, group_age, rNeg,
                   figures, model, files, processed>>

\* ------------------------------------------------------------------ plots

PlotScatterWithRegline ==
    /\ pc = "scatter"
    /\ figures' = Append(figures, "Relationship Between Diet Quality and 10-Year CVD Risk")
    /\ Return("scatter")
    /\ UNCHANGED <<fileExists, raw, df, sexDtype, group_sex, group_age, r, rNeg,
                   model, files, processed>>

PlotStratifiedScatter ==
    /\ pc = "stratified"
    /\ figures' = figures \o <<"HEI-2015 vs CVD Risk by Sex",
                               "HEI-2015 vs CVD Risk by Age Group">>
    /\ Return("stratified")
    /\ UNCHANGED <<fileExists, raw, df, sexDtype, group_sex, group_age, r, rNeg,
                   model, files, processed>>

\* ---------------------------------------------------- regression_analysis

NoModel == [fitted |-> FALSE, nobs |-> 0, sex_levels |-> {}]

\* df["sex"].astype("category") changes the column's dtype in the caller's
\* frame, not its values; the model is fitted on all rows of the frame.
RegressionAnalysis ==
    /\ pc = "regress"
    /\ sexDtype' = "category"
    /\ model' = [fitted |-> TRUE, nobs |-> Len(df),
                 sex_levels |-> { df[i].sex.s : i \in DOMAIN df }]
    /\ Return("regress")
    /\ UNCHANGED <<fileExists, raw, df, group_sex, group_age, r, rNeg, figures,
                   files, processed>>

\* ---------------------------------------------------- save_processed_data

OutputColumns == {"age", "sex", "hei_score", "cvd_risk_score", "age_group"}

\* df.to_csv(out_path, index=False): every row, without the index.
ToCsv(frame) == [i \in DOMAIN frame |-> [c \in OutputColumns |-> frame[i][c]]]

SaveProcessedData ==
    /\ pc = "save"
    /\ processed' = ToCsv(df)
    /\ files' = files \cup {ProcessedFile}
    /\ Return("save")
    /\ UNCHANGED <<fileExists, raw, df, sexDtype, group_sex, group_age, r, rNeg,
                   figures, model>>

\* ------------------------------------------------------------------ inputs

\* Raw text of the cells the input lines are built from.
Age50 == <<"5","0">>
AgeTexts == { <<"2","9",".","9">>, <<"3","0">>, <<"4","4",".","5">>, <<"4","5">>,
              <<"6","0">>, <<"7","4">>, <<"7","4",".","5">>, <<>>, <<"a","b","c">> }
Female == <<"F","e","m","a","l","e">>
SexTexts == { <<" ","f","e","m","a","l","e"," ">>, <<" ","M","a","l","e">>,
              <<"f">>, <<"X">>, <<"1">>, <<" ">>, <<>> }
Hei65 == <<"6","5">>
Hei58 == <<"5","8",".","5">>
HeiTexts == { Hei58, <<>>, <<"a","b","c">> }
Cvd82 == <<"8",".","2">>
Cvd12 == <<"1","2">>
CvdTexts == { Cvd12, <<"N","A">>, <<"h","i","g","h">> }

Line(a, s, h, c) == [age |-> a, sex |-> s, hei_score |-> h, cvd_risk_score |-> c]

\* The example line of the specification.
ExampleLine == Line(Age50, Female, Hei65, Cvd82)

\* Input lines: the example line, every line that differs from it in one
\* field, and a line that differs in all.
Lines ==
    {ExampleLine}
    \cup { Line(a, Female, Hei65, Cvd82) : a \in AgeTexts }
    \cup { Line(Age50, s, Hei65, Cvd82) : s \in SexTexts }
    \cup { Line(Age50, Female, h, Cvd82) : h \in HeiTexts }
    \cup { Line(Age50, Female, Hei65, c) : c \in CvdTexts }
    \cup { Line(<<"6","0">>, <<"M","A","L","E">>, Hei58, Cvd12) }

RECURSIVE SeqsUpTo(_, _)
\* The sequences of at most n elements of S.
SeqsUpTo(S, n) ==
    IF n = 0 THEN {<<>>}
    ELSE LET shorter == SeqsUpTo(S, n - 1)
         IN  shorter \cup { Append(q, x) : q \in shorter, x \in S }

RECURSIVE SetToSeq(_)
SetToSeq(S) ==
    IF S = {} THEN <<>>
    ELSE LET x == CHOOSE y \in S : TRUE IN <<x>> \o SetToSeq(S \ {x})

\* The input lines in one fixed order.
LineList == SetToSeq(Lines)

RECURSIVE Ascending(_, _)
\* The non-decreasing sequences of at most n numbers of 1..m.
Ascending(m, n) ==
    IF n = 0 THEN {<<>>}
    ELSE LET shorter == Ascending(m, n - 1)
         IN  shorter \cup
             UNION { { Append(q, x) : x \in { y \in 1..m : q = <<>> \/ q[Len(q)] <= y } } :
                     q \in shorter }

\* The input files: every choice of at most MaxRows lines, repeats allowed,
\* each choice in the order of LineList (no stage depends on the position of
\* a row: the filters keep the order, the summaries and the correlation are
\* sums over the rows).
Inputs ==
    LET list == LineList
    IN  { [i \in DOMAIN q |-> list[q[i]]] : q \in Ascending(Len(list), MaxRows) }

\* ----------------------------------------------------------------- main()

Init ==
    /\ \/ fileExists = TRUE /\ raw \in Inputs
       \/ fileExists = FALSE /\ raw = <<>>
    /\ pc = "load"
    /\ err = "none"
    /\ trace = <<>>
    /\ df = <<>>
    /\ sexDtype = "none"
    /\ group_sex = {}
    /\ group_age = {}
    /\ r = NoR
    /\ rNeg = NoR
    /\ figures = <<>>
    /\ model = NoModel
    /\ files = {}
    /\ processed = <<>>

Next ==
    \/ LoadAndClean
    \/ DescriptiveStatistics
    \/ CorrelationAnalysis
    \/ PlotScatterWithRegline
    \/ PlotStratifiedScatter
    \/ RegressionAnalysis
    \/ SaveProcessedData

Spec == Init /\ [][Next]_vars

\* --------------------------------- the correlation on arbitrary data sets

\* Values of the two variables in the data sets handed to the correlation.
PValues == {0, 10, 30}

\* A cleaned row with the given diet and risk scores.
PRow(h, c) ==
    [age |-> Num(500), sex |-> Str(<<"F">>), hei_score |-> Num(h),
     cvd_risk_score |-> Num(c), age_group |-> "45-59", idx |-> 1]

PData == SeqsUpTo({ PRow(h, c) : h \in PValues, c \in PValues }, MaxN)

Negated(xs) == [i \in DOMAIN xs |-> 0 - xs[i]]

\* stats.pearsonr on the frame with one of the two variables negated.
RecomputeNegated(col) ==
    /\ pc = "scatter"
    /\ rNeg = NoR
    /\ rNeg' = IF col = "hei_score"
               THEN PearsonR(Negated(Column(df, "hei_score")),
                             Column(df, "cvd_risk_score"))
               ELSE PearsonR(Column(df, "hei_score"),
                             Negated(Column(df, "cvd_risk_score")))
    /\ UNCHANGED <<fileExists, raw, pc, err, trace, df, sexDtype, group_sex,
                   group_age, r, figures, model, files, processed>>

\* main() has cleaned and summarised the data set and is about to correlate.
PearsonInit ==
    /\ fileExists = TRUE
    /\ raw = <<>>
    /\ pc = "correlate"
    /\ err = "none"
    /\ trace = <<"load", "describe">>
    /\ df \in PData
    /\ sexDtype = "object"
    /\ group_sex = GroupBySex(df)
    /\ group_age = GroupByAge(df)
    /\ r = NoR
    /\ rNeg = NoR
    /\ figures = <<>>
    /\ model = NoModel
    /\ files = {SexSummaryFile, AgeSummaryFile}
    /\ processed = <<>>

PearsonNext ==
    \/ CorrelationAnalysis
    \/ RecomputeNegated("hei_score")
    \/ RecomputeNegated("cvd_risk_score")

PearsonSpec == PearsonInit /\ [][PearsonNext]_vars

\* ------------------------------------------------------------- properties

\* The stage has run to completion.
Ran(st) == \E i \in DOMAIN trace : trace[i] = st

\* The input line a row of the frame was read from.
LineOf(row) == raw[row.idx]

F == Str(<<"F">>)
M == Str(<<"M">>)

\* C1: every row returned by load_and_clean_data has 30 <= age <= 74; no
\* line whose age is below 30 or above 74 (74.5 included) survives cleaning.
C1_AgeWithin30To74 ==
    \A i \in DOMAIN df :
        /\ df[i].age.k = "num"
        /\ df[i].age.v >= 300
        /\ df[i].age.v <= 740
        /\ LineOf(df[i]).age \notin { <<"2","9",".","9">>, <<"7","4",".","5">> }

\* Cleaning returned, dropped a line of age 74.5 and kept a line of age 74.
C1_Witness ==
    /\ Ran("load")
    /\ \E j \in DOMAIN raw :
          /\ raw[j].age = <<"7","4",".","5">>
          /\ \A i \in DOMAIN df : df[i].idx # j
    /\ \E i \in DOMAIN df : df[i].age.v = 740

\* Text that is neither a number nor a missing-value token.
Malformed == { <<"a","b","c">>, <<"h","i","g","h">> }

\* C2: a malformed value in age, hei_score or cvd_risk_score never makes
\* load_and_clean_data raise: with a readable file it returns, and no row of
\* its result comes from a line holding a malformed numeric value.
C2_MalformedNumericNeverRaises ==
    (fileExists /\ pc # "load") =>
        /\ Ran("load")
        /\ err # "TypeError"
        /\ \A i \in DOMAIN df :
               \A c \in numeric_cols : LineOf(df[i])[c] \notin Malformed

\* C3: after cleaning every row has a value for age, sex, hei_score and
\* cvd_risk_score; a line whose numeric text was coerced to missing is gone.
C3_NoMissingKeyValue ==
    \A i \in DOMAIN df :
        /\ df[i].sex.k = "str"
        /\ \A c \in numeric_cols : df[i][c].k = "num"
        /\ LineOf(df[i]).hei_score \notin Malformed
        /\ LineOf(df[i]).cvd_risk_score \notin Malformed

\* Cleaning returned rows from an input with a line whose diet score was coerced.
C3_Witness ==
    /\ Ran("load")
    /\ df # <<>>
    /\ \E j \in DOMAIN raw : raw[j].hei_score = <<"a","b","c">>

C4_GroupMatchesAge ==
    \A i \in DOMAIN df :
        /\ df[i].age_group \in {"30-44", "45-59", "60-74"}
        /\ df[i].age_group = "30-44" <=> (300 <= df[i].age.v /\ df[i].age.v < 450)
        /\ df[i].age_group = "45-59" <=> (450 <= df[i].age.v /\ df[i].age.v < 600)
        /\ df[i].age_group = "60-74" <=> (600 <= df[i].age.v /\ df[i].age.v < 750)

Ages(frame) == [i \in DOMAIN frame |-> <<frame[i].age, frame[i].age_group>>]

\* C4: in every cleaned row age_group is one of the three labels and is the
\* label of the bin [30,45), [45,60), [60,75) holding the age; no stage after
\* cleaning changes age or age_group.
C4_AgeGroupFromAgeAlone ==
    /\ [] C4_GroupMatchesAge
    /\ [][pc # "load" => Ages(df') = Ages(df)]_vars

\* The run completed on rows at the cut points 30, 45 and 60.
C4_Witness ==
    /\ pc = "done"
    /\ \E i \in DOMAIN df : df[i].age.v = 300 /\ df[i].age_group = "30-44"
    /\ \E i \in DOMAIN df : df[i].age.v = 450 /\ df[i].age_group = "45-59"
    /\ \E i \in DOMAIN df : df[i].age.v = 600 /\ df[i].age_group = "60-74"

RECURSIVE TotalCount(_, _)
\* The sum of a column's counts over the rows of a group summary.
TotalCount(groups, col) ==
    IF groups = {} THEN 0
    ELSE LET g == CHOOSE x \in groups : TRUE
         IN  g[col].count + TotalCount(groups \ {g}, col)

\* C5: a line with a missing age, sex, hei_score or cvd_risk_score is no row
\* of the frame the later stages read; the counts of each group summary add
\* up to the number of cleaned rows, the regression is fitted on exactly the
\* cleaned rows and the saved data set holds exactly the cleaned rows.
C5_MissingRowsInNoAggregate ==
    /\ \A i \in DOMAIN df : \A c \in key_cols : LineOf(df[i])[c] \notin NaTokens
    /\ Ran("describe") =>
          /\ TotalCount(group_sex, "hei_score") = Len(df)
          /\ TotalCount(group_sex, "cvd_risk_score") = Len(df)
          /\ TotalCount(group_age, "hei_score") = Len(df)
          /\ TotalCount(group_age, "cvd_risk_score") = Len(df)
    /\ model.fitted => model.nobs = Len(df)
    /\ ProcessedFile \in files =>
          /\ Len(processed) = Len(df)
          /\ \A i \in DOMAIN df : \A c \in key_cols : processed[i][c] = df[i][c]

\* The run completed on an input with a line that misses its risk score.
C5_Witness ==
    /\ pc = "done"
    /\ Len(df) = 2
    /\ \E j \in DOMAIN raw : raw[j].cvd_risk_score = <<"N","A">>

\* C6 as stated: after cleaning every row's sex is "M" or "F".
C6_SexIsMOrF == \A i \in DOMAIN df : df[i].sex \in {M, F}

\* Input sex values that are M, F, Male or Female up to case and surrounding
\* whitespace.
MaleFemaleTexts ==
    { Female, <<" ","f","e","m","a","l","e"," ">>, <<"M","A","L","E">>,
      <<" ","M","a","l","e">>, <<"f">> }

\* C6 (amended): after cleaning a row's sex is "M" or "F" exactly when the
\* input value is M, F, Male or Female up to case and surrounding whitespace;
\* any other value present in the input is kept as a code of its own.
C6_SexIsMOrFIffMaleFemaleText ==
    \A i \in DOMAIN df :
        /\ df[i].sex.k = "str"
        /\ df[i].sex \in {M, F} <=> LineOf(df[i]).sex \in MaleFemaleTexts

\* Cleaning kept a row whose sex is a third code.
C6_Witness ==
    /\ Ran("load")
    /\ \E i \in DOMAIN df : df[i].sex = Str(<<"X">>)
    /\ \E i \in DOMAIN df : df[i].sex = F

\* C7: every case or surrounding-whitespace variant of "Female" comes out as
\* "F" and of "Male" as "M"; the line (50, "Female", 65, 8.2) is kept by
\* cleaning with sex "F" and age_group "45-59".
C7_FemaleToFMaleToM ==
    /\ \A i \in DOMAIN df :
          /\ LineOf(df[i]).sex \in { Female, <<" ","f","e","m","a","l","e"," ">> }
                => df[i].sex = F
          /\ LineOf(df[i]).sex \in { <<"M","A","L","E">>, <<" ","M","a","l","e">> }
                => df[i].sex = M
    /\ Ran("load") =>
          \A j \in DOMAIN raw :
              raw[j] = ExampleLine =>
                  \E i \in DOMAIN df :
                      /\ df[i].idx = j
                      /\ df[i].sex = F
                      /\ df[i].age_group = "45-59"
                      /\ df[i].age = Num(500)
                      /\ df[i].hei_score = Num(650)
                      /\ df[i].cvd_risk_score = Num(82)

\* Cleaning returned the example line together with padded variants.
C7_Witness ==
    /\ Ran("load")
    /\ \E i \in DOMAIN df : LineOf(df[i]) = ExampleLine
    /\ \E i \in DOMAIN df : LineOf(df[i]).sex = <<" ","f","e","m","a","l","e"," ">>
    /\ \E i \in DOMAIN df : LineOf(df[i]).sex = <<" ","M","a","l","e">>

\* The stages that ran are the first stages of the fixed order, the next one
\* to run is the one after them, and the frame is the output of cleaning.
C8_RanInOrder ==
    /\ Len(trace) <= 7
    /\ trace = SubSeq(<<"load", "describe", "correlate", "scatter", "stratified",
                        "regress", "save">>, 1, Len(trace))
    /\ pc \in { "failed",
                <<"load", "describe", "correlate", "scatter", "stratified",
                  "regress", "save", "done">>[Len(trace) + 1] }
    /\ Ran("load") => df = Clean(raw)

\* C8: the stages run in the order load/clean, descriptive statistics,
\* correlation, scatter plot, stratified plots, regression, save, each once
\* and each after the one before it returned; every stage after cleaning
\* reads the output of cleaning.
C8_FixedStageOrder ==
    /\ [] C8_RanInOrder
    /\ [][trace' = trace \/ (trace' = Append(trace, pc) /\ pc' # pc)]_vars

\* The run completed.
C8_Witness == pc = "done" /\ Len(trace) = 7 /\ ProcessedFile \in files

\* C9 as stated: r lies in [-1, 1], and with one variable negated it is -r.
C9_RInRangeAndNegationFlips ==
    /\ Ran("correlate") => (r.state = "ok" /\ r.num * r.num <= r.den)
    /\ rNeg # NoR => (rNeg.state = "ok" /\ rNeg.num = 0 - r.num /\ rNeg.den = r.den)

\* C9 (amended): when neither variable is constant over the rows, r lies in
\* [-1, 1] and with one variable negated it is -r, of the same magnitude;
\* when a variable is constant r is NaN, with and without the negation.
C9_RInRangeUnlessConstant ==
    /\ Ran("correlate") =>
          /\ r.state \in {"ok", "nan"}
          /\ r.state = "nan" <=>
                \/ \A i \in DOMAIN df : df[i].hei_score = df[1].hei_score
                \/ \A i \in DOMAIN df : df[i].cvd_risk_score = df[1].cvd_risk_score
          /\ r.state = "ok" => (r.den > 0 /\ r.num * r.num <= r.den)
    /\ rNeg # NoR =>
          /\ rNeg.state = r.state
          /\ rNeg.num = 0 - r.num
          /\ rNeg.den = r.den

\* A nonzero correlation was computed, and recomputed with a variable negated.
C9_Witness ==
    /\ r.state = "ok"
    /\ r.num < 0
    /\ r.num * r.num < r.den
    /\ rNeg.state = "ok"

\* C10: the two group summaries are on disk from the end of the descriptive
\* statistics on, the processed data set only once every stage has completed;
\* a run that fails after the descriptive statistics ends with the summaries
\* on disk and no processed data set.
C10_SummariesEarlyProcessedLast ==
    /\ Ran("describe") <=> {SexSummaryFile, AgeSummaryFile} \subseteq files
    /\ ~Ran("describe") => files = {}
    /\ ProcessedFile \in files <=> pc = "done"
    /\ pc = "done" => Len(trace) = 7
    /\ (pc = "failed" /\ Ran("describe")) =>
          files = {SexSummaryFile, AgeSummaryFile}

\* The correlation failed on fewer than two cleaned rows, after the summaries
\* were written.
C10_Witness ==
    /\ pc = "failed"
    /\ err = "ValueError"
    /\ Len(df) < 2
    /\ files = {SexSummaryFile, AgeSummaryFile}

====
